---- MODULE Spec2Model ----
(***************************************************************************)
(* A model of the kindly statistics client.                                *)
(*                                                                         *)
(*   - Client.do (statistics/client.go): the request pipeline, one GET     *)
(*     sent through a pluggable Doer, retried on 429, decoded through the  *)
(*     {data} envelope.                                                    *)
(*   - auth.TokenSource.Token (statistics/auth/auth.go) behind             *)
(*     oauth2.ReuseTokenSource (wired in cmd/frontendcsv main.run): the    *)
(*     cached bearer credential.                                           *)
(*   - Filter.Query (statistics/client.go): a filter as query parameters.  *)
(*   - csvHandler.ServeHTTP and the handlers of NewServer                  *)
(*     (cmd/frontendcsv/http/server.go): one request to the CSV server,    *)
(*     its filter, its calls of the client and the rows it writes.         *)
(*                                                                         *)
(*   - do behind the Doer of main.run (oauth2.NewClient over the cached    *)
(*     credential): the Authorization of every attempt.                    *)
(*   - Client.newRequest and the head of Client.do under concurrent        *)
(*     callers of one Client: the fields BaseURL and doer.                 *)
(*                                                                         *)
(* Each machine has its own specification (DoSpec / DoFairSpec, AuthSpec / *)
(* TokenSpec, QuerySpec, AggSpec, PipeSpec, ClientSpec) that leaves the    *)
(* others' variables alone.                                                *)
(***************************************************************************)
EXTENDS Integers, Sequences, FiniteSets, TLC

\* ------------------------------------------------------------------ bounds

\* Transport calls of one do that are counted exactly; the counters saturate
\* here (the retry loop itself has no ceiling and keeps running).
MaxCalls == 4

\* Concurrent callers of the shared token source.
NCallers == 2

\* The days of February 2021 a request can name in from and to.
MaxDay == 3

\* --------------------------------------------------------- program constants

StatusOK == 200
StatusTooManyRequests == 429
StatusUnauthorized == 401

VARIABLES
    \* ---- Client.do
    pc,         \* position of do: "call", "inflight", "wait", "done"
    calls,      \* c.doer.Do invocations so far (saturating at MaxCalls)
    n429,       \* responses with status 429 received so far (saturating)
    n429p,      \* those of them whose Retry-After was an integer (saturating)
    resp,       \* the last response the Doer returned, or NoResp
    cancelled,  \* r.Context() is done (cancelled or past its deadline)
    woken,      \* the case the select of lines 375-380 is committed to
    cutShort,   \* the context was cancelled while do was blocked in the select
    err,        \* what do returned ("pending" until it returns)
    v,          \* the target: [present, val]
    unclosed,   \* response bodies received and not yet closed (saturating)
    \* ---- credential cache
    now,        \* wall clock, seconds
    tok,        \* reuseTokenSource.t: the cached *oauth2.Token, or NoToken
    mu,         \* reuseTokenSource.mu: 0 when free, else the caller holding it
    cpc,        \* per caller: "idle", "lock", "fetch", "done"
    fetched,    \* per caller: token-endpoint calls made by its current request
    seen,       \* per caller: the age of the cached token when it looked at it
    joined,     \* per caller: "stale" when it called Token() on an absent or
                \* expired credential before any request of the round returned
    cerr,       \* per caller: whether its request returned an error
    since,      \* per caller: when its request to the token endpoint went out
    anyDone,    \* some request of the current round has returned
    \* ---- the last call of TokenSource.Token, as the caller saw it
    reply,      \* the token endpoint's reply
    ret,        \* what Token returned: [err, token]
    before,     \* the kept token when the reply arrived
    sentAt,     \* when the request had gone out
    gotAt,      \* when the reply arrived
    \* ---- Filter.Query
    qf,         \* the *Filter Query is called on
    q,          \* the url.Values it returned, as a set of <<key, value>>
    qdone,      \* Query has returned
    \* ---- the CSV server (cmd/frontendcsv/http): one request
    apc,        \* "start", "loop", "call", "write", "end"
    req,        \* the request: endpoint, form values, the clock
    filt,       \* the *Filter of filterFromRequest
    status,     \* the status of the response (0 until it is settled)
    wt,         \* t, the start of the current day window
    si,         \* index into f.Sources of the current source
    issued,     \* the filters handed to the client, in the order of the calls
    answers,    \* the rows the client returned, call by call
    out,        \* the handler's out slice
    written,    \* the rows the rowWriter has accepted, in order
    cbuf,       \* records the csv.Writer holds in its buffer
    wire,       \* records flushed to the http.ResponseWriter
    herr,       \* the handler's error: "pending", "nil", "call", "write"
    \* ---- do behind oauth2.Transport: what goes out on the attempts
    rq,         \* the *http.Request do was given
    first,      \* the request of the first attempt as the transport sent it
    last,       \* the request of the latest attempt as the transport sent it
    refetch,    \* the TokenSource was asked on an attempt after the first
    \* ---- one Client shared by concurrent callers
    client,     \* the Client's fields: [BaseURL, doer]
    rpc,        \* per caller: its position in newRequest and do
    url         \* per caller: the c.BaseURL it formatted the URL with

doVars == <<pc, calls, n429, n429p, resp, cancelled, woken, cutShort, err, v,
           unclosed>>
authVars == <<now, tok, mu, cpc, fetched, seen, joined, cerr, since, anyDone>>
fetchVars == <<reply, ret, before, sentAt, gotAt>>
queryVars == <<qf, q, qdone>>
aggVars == <<apc, req, filt, status, wt, si, issued, answers, out, written,
             cbuf, wire, herr>>
srvVars == <<queryVars, aggVars>>
pipeVars == <<rq, first, last, refetch>>
clientVars == <<client, rpc, url>>
runVars == <<pipeVars, clientVars>>
vars == <<pc, calls, n429, n429p, resp, cancelled, woken, cutShort, err, v,
          unclosed,
          now, tok, mu, cpc, fetched, seen, joined, cerr, since, anyDone,
          reply, ret, before, sentAt, gotAt,
          qf, q, qdone,
          apc, req, filt, status, wt, si, issued, answers, out, written,
          cbuf, wire, herr,
          rq, first, last, refetch,
          client, rpc, url>>

\* =========================================================================
\*                               Client.do
\* =========================================================================

\* ---- values

\* JSON payloads of the envelope's data field, by what json.Unmarshal makes of
\* them for the typed target: rows it decodes ("rows"), null, a value of the
\* wrong shape ("mismatch", rows = what Unmarshal stores in the target
\* before it reports the error), or no data field at all ("absent").
Rows == {<<>>, <<"r1">>}
Datas ==
    {[kind |-> "rows", rows |-> r] : r \in Rows}
      \cup {[kind |-> "null", rows |-> <<>>],
            [kind |-> "absent", rows |-> <<>>],
            [kind |-> "mismatch", rows |-> <<"r1">>]}

\* Response bodies: env says whether the bytes decode as the responseWrapper
\* object.
Garbage == [env |-> FALSE, data |-> [kind |-> "absent", rows |-> <<>>]]
Bodies == {Garbage} \cup {[env |-> TRUE, data |-> d] : d \in Datas}

\* Header values are strings, modelled as sequences of characters.
\* <<>> is the empty string, which Header.Get also returns for no header.
IntegerHeaders == {<<"0">>, <<"2">>, <<"-", "1">>}
OtherHeaders == {<<"a">>, <<"1", "s">>}
RetryAfterValues == {<<>>} \cup IntegerHeaders \cup OtherHeaders

Statuses == {StatusOK, 304, 399, 400, StatusTooManyRequests, 500}

\* What a Doer can hand back: readable = FALSE is a body whose Read fails.
Responses ==
    [status : {StatusTooManyRequests}, retryAfter : RetryAfterValues,
     body : Bodies, readable : BOOLEAN]
      \cup [status : Statuses \ {StatusTooManyRequests},
            retryAfter : {<<>>, <<"0">>},
            body : Bodies, readable : BOOLEAN]

NoResp == [status |-> 0, retryAfter |-> <<>>, body |-> Garbage, readable |-> FALSE]

\* ---- errors

NilErr == [kind |-> "nil", statusCode |-> 0, body |-> Garbage]
Pending == [kind |-> "pending", statusCode |-> 0, body |-> Garbage]
CtxErr == [kind |-> "ctx", statusCode |-> 0, body |-> Garbage]
TransportErr == [kind |-> "transport", statusCode |-> 0, body |-> Garbage]
ReadErr == [kind |-> "read", statusCode |-> 0, body |-> Garbage]
UnmarshalErr == [kind |-> "unmarshal", statusCode |-> 0, body |-> Garbage]

\* ---- strconv.Atoi on the header value

DigitChars == {"0", "1", "2", "3", "4", "5", "6", "7", "8", "9"}

DigitVal(c) ==
    CASE c = "0" -> 0 [] c = "1" -> 1 [] c = "2" -> 2 [] c = "3" -> 3
      [] c = "4" -> 4 [] c = "5" -> 5 [] c = "6" -> 6 [] c = "7" -> 7
      [] c = "8" -> 8 [] c = "9" -> 9

RECURSIVE DecimalValue(_)
DecimalValue(s) ==
    IF s = <<>> THEN 0
    ELSE 10 * DecimalValue(SubSeq(s, 1, Len(s) - 1)) + DigitVal(s[Len(s)])

\* Mutant: the error of Atoi is dropped, the wait is then zero seconds.
Atoi_ErrorDropped(s) == [ok |-> TRUE, n |-> 0]

\* An optional sign, then one or more decimal digits and nothing else.
\* (The header values of the model are far from the int range.)
Atoi(s) ==
    LET signed == Len(s) > 0 /\ s[1] \in {"+", "-"}
        digits == IF signed THEN Tail(s) ELSE s
    IN  IF digits = <<>> \/ \E i \in 1..Len(digits) : digits[i] \notin DigitChars
        THEN [ok |-> FALSE, n |-> 0]
        ELSE [ok |-> TRUE,
              n |-> IF signed /\ s[1] = "-" THEN 0 - DecimalValue(digits)
                    ELSE DecimalValue(digits)]

\* ---- the pieces of do

\* newResponseError: the body is read in full and attached; a failing read
\* returns the read error instead.
newResponseError(r) ==
    IF r.readable
    THEN [kind |-> "Error", statusCode |-> r.status, body |-> r.body]
    ELSE ReadErr

\* An outcome of handling one response: where do goes next, what it returns,
\* the target, and the select case taken.
Return(e, tv) == [pc |-> "done", err |-> e, v |-> tv, woken |-> "none"]
Continue(tv) == [pc |-> "call", err |-> Pending, v |-> tv, woken |-> "none"]
Wait(w, tv) == [pc |-> "wait", err |-> Pending, v |-> tv, woken |-> w]

\* The select of lines 375-380 as it is entered. A context that is already
\* done makes its case ready; the timer of a wait of zero or less is due at
\* once. With both ready Go picks either; with one, that one; with none the
\* goroutine blocks and the first of the two events decides (Cancel,
\* TimerFire).
Select(c, waitSeconds, tv) ==
    IF c
    THEN IF waitSeconds <= 0
         THEN {Wait("ctx", tv), Wait("timer", tv)}
         ELSE {Wait("ctx", tv)}
    ELSE {Wait("none", tv)}

\* Mutant: the error of json.Unmarshal is dropped.
Unmarshal_ErrorDropped(d, tv) ==
    Return(NilErr, [present |-> TRUE, val |-> d.rows])

\* json.Unmarshal(w.Data, &v) for a present target. null stops at the
\* interface and leaves the pointed-to value alone; a missing data field is
\* an empty input, which is an error.
Unmarshal(d, tv) ==
    CASE d.kind = "rows" -> Return(NilErr, [present |-> TRUE, val |-> d.rows])
      [] d.kind = "null" -> Return(NilErr, tv)
      [] d.kind = "absent" -> Return(UnmarshalErr, tv)
      [] d.kind = "mismatch" ->
            Return(UnmarshalErr, [present |-> TRUE, val |-> d.rows])

\* Mutant: the envelope's decode error is returned.
Decode_ErrorReturned(r, tv) ==
    IF ~r.readable \/ ~r.body.env THEN Return(UnmarshalErr, tv)
    ELSE IF ~tv.present THEN Return(NilErr, tv)
    ELSE Unmarshal(r.body.data, tv)

\* Lines 387-395: the envelope, then the data.
Decode(r, tv) ==
    IF ~r.readable \/ ~r.body.env THEN Return(NilErr, tv)
    ELSE IF ~tv.present THEN Return(NilErr, tv)
    ELSE Unmarshal(r.body.data, tv)

\* Mutant: every status from 429 up is retried.
IsRateLimited_From429(r) == r.status >= StatusTooManyRequests

\* Line 369.
IsRateLimited(r) == r.status = StatusTooManyRequests

\* Mutant: only the 5xx statuses are errors.
IsErrorStatus_From500(r) == r.status >= 500

\* Line 383.
IsErrorStatus(r) == r.status > 399

\* Lines 369-395: what do does with response r, the context being done or
\* not (c), the target being tv.
Outcomes(r, c, tv) ==
    IF IsRateLimited(r)
    THEN IF r.retryAfter # <<>>
         THEN LET a == Atoi(r.retryAfter)
              IN  IF ~a.ok THEN {Return(newResponseError(r), tv)}
                  ELSE Select(c, a.n, tv)
         ELSE {Continue(tv)}
    ELSE IF IsErrorStatus(r)
         THEN {Return(newResponseError(r), tv)}
         ELSE {Decode(r, tv)}

\* Mutant: the select has no case for the context.
Resume_NoContextCase(w, tv) == Continue(tv)

\* Mutant: the wait is over and do gives up instead of sending again.
Resume_NoRetry(w, tv) ==
    IF w = "ctx" THEN Return(CtxErr, tv) ELSE Return(NilErr, tv)

\* The select case a blocked do wakes up on.
Resume(w, tv) ==
    IF w = "ctx" THEN Return(CtxErr, tv) ELSE Continue(tv)

\* Mutant: an error of the Doer is retried like a 429.
OnTransportError_Retried(tv) == Continue(tv)

\* Lines 363-365: the Doer's error is returned as it is.
OnTransportError(tv) == Return(TransportErr, tv)

\* What a typed endpoint method (ChatLabels, UserMessages, ...) returns to
\* its caller from do's result: nil with the error, else the target.
EndpointReturn(e, tv) ==
    IF e.kind # "nil" THEN [ok |-> FALSE, rows |-> <<>>]
    ELSE [ok |-> TRUE, rows |-> tv.val]

Bump(n) == IF n < MaxCalls THEN n + 1 ELSE n

\* Line 366, defer resp.Body.Close(): the Close calls of all the responses
\* of this do run when do returns, and none before. n bodies being open,
\* what is open after the outcome o.
Unclosed(o, n) == IF o.pc = "done" THEN 0 ELSE n

\* ---- actions

\* resp, err := c.doer.Do(r): the request goes out.
DoSend ==
    /\ pc = "call"
    /\ pc' = "inflight"
    /\ calls' = Bump(calls)
    /\ UNCHANGED <<n429, n429p, resp, cancelled, woken, cutShort, err, v,
                   unclosed>>
    /\ UNCHANGED <<authVars, fetchVars, srvVars, runVars>>

\* The Doer returns a response, one of R, and do handles it up to its next
\* blocking point or its return.
DoRecvFrom(R) ==
    /\ pc = "inflight"
    /\ \E r \in R :
         \E o \in Outcomes(r, cancelled, v) :
            /\ resp' = r
            /\ n429' = IF r.status = StatusTooManyRequests THEN Bump(n429) ELSE n429
            /\ n429p' = IF r.status = StatusTooManyRequests
                            /\ r.retryAfter \in IntegerHeaders
                         THEN Bump(n429p) ELSE n429p
            /\ pc' = o.pc
            /\ err' = o.err
            /\ v' = o.v
            /\ woken' = o.woken
            /\ unclosed' = Unclosed(o, Bump(unclosed))
    /\ UNCHANGED <<calls, cancelled, cutShort>>
    /\ UNCHANGED <<authVars, fetchVars, srvVars, runVars>>

DoRecv == DoRecvFrom(Responses)

\* The Doer returns an error: lines 363-365.
DoFail ==
    /\ pc = "inflight"
    /\ LET o == OnTransportError(v)
       IN  /\ pc' = o.pc
           /\ err' = o.err
           /\ v' = o.v
           /\ woken' = o.woken
           /\ unclosed' = Unclosed(o, unclosed)
    /\ UNCHANGED <<calls, n429, n429p, resp, cancelled, cutShort>>
    /\ UNCHANGED <<authVars, fetchVars, srvVars, runVars>>

\* The select returns with the case it woke up on.
DoResume ==
    /\ pc = "wait"
    /\ woken # "none"
    /\ LET o == Resume(woken, v)
       IN  /\ pc' = o.pc
           /\ err' = o.err
           /\ v' = o.v
           /\ woken' = o.woken
           /\ unclosed' = Unclosed(o, unclosed)
    /\ UNCHANGED <<calls, n429, n429p, resp, cancelled, cutShort>>
    /\ UNCHANGED <<authVars, fetchVars, srvVars, runVars>>

\* The timer of time.After fires while do is blocked in the select.
TimerFire ==
    /\ pc = "wait"
    /\ woken = "none"
    /\ woken' = "timer"
    /\ UNCHANGED <<pc, calls, n429, n429p, resp, cancelled, cutShort, err, v,
                   unclosed>>
    /\ UNCHANGED <<authVars, fetchVars, srvVars, runVars>>

\* The caller cancels the request context, or its deadline passes. A do
\* blocked in the select wakes up on the Done case.
Cancel ==
    /\ ~cancelled
    /\ pc # "done"
    /\ cancelled' = TRUE
    /\ woken' = IF pc = "wait" /\ woken = "none" THEN "ctx" ELSE woken
    /\ cutShort' = (pc = "wait" /\ woken = "none")
    /\ UNCHANGED <<pc, calls, n429, n429p, resp, err, v, unclosed>>
    /\ UNCHANGED <<authVars, fetchVars, srvVars, runVars>>

DoNext == DoSend \/ DoRecv \/ DoFail \/ DoResume \/ TimerFire \/ Cancel

\* =========================================================================
\*                          The cached credential
\* =========================================================================

Callers == 1..NCallers

\* The instants at which the clock is looked at (seconds).
Instants == {0, 290, 291, 299, 300, 301}

\* ---- the token endpoint

TTLs == {0, 300}
JWTs == {"", "a", "b"}

JSONContentTypes == {"application/json", "application/json; charset=utf-8"}
ContentTypes == JSONContentTypes \cup {"text/plain"}

\* strings.HasPrefix(ct, "application/json")
HasJSONPrefix(ct) == ct \in JSONContentTypes

\* Bodies of the token endpoint: decodes = FALSE is a body json cannot decode
\* as an object with a string jwt and an integer ttl.
NoTokenBody == [decodes |-> FALSE, jwt |-> "", ttl |-> 0]

TokenBodies == {NoTokenBody} \cup [decodes : {TRUE}, jwt : JWTs, ttl : TTLs]

\* What http.DefaultClient.Do gives: sent = FALSE is a transport error,
\* readable = FALSE a body whose Read fails. (Token looks at the body of a
\* 200 only; the other statuses come with one body.)
TokenReplies ==
    {[sent |-> FALSE, status |-> 0, ctype |-> "text/plain",
      body |-> NoTokenBody, readable |-> FALSE]}
      \cup [sent : {TRUE}, status : {204, StatusUnauthorized, 500},
            ctype : ContentTypes, body : {NoTokenBody}, readable : {TRUE}]
      \cup [sent : {TRUE}, status : {StatusOK},
            ctype : ContentTypes, body : TokenBodies, readable : BOOLEAN]

\* No reply yet.
NoReply ==
    [sent |-> FALSE, status |-> -1, ctype |-> "text/plain",
     body |-> NoTokenBody, readable |-> FALSE]

\* ---- tokens

NoToken == [set |-> FALSE, AccessToken |-> "", Expiry |-> 0]

\* Token has not returned.
NoReturn == [err |-> "pending", token |-> NoToken]

\* Mutant: the ttl is left out of the expiry.
Expires_NoTTL(t, ttl) == t

\* tokenJSON.UnmarshalJSON: Expires = time.Now() + ttl seconds.
Expires(t, ttl) == t + ttl

\* extractToken on a body read at time t.
extractToken(b, t) ==
    IF ~b.decodes THEN [err |-> "decode", token |-> NoToken]
    ELSE [err |-> "nil",
          token |-> [set |-> TRUE, AccessToken |-> b.jwt,
                     Expiry |-> Expires(t, b.ttl)]]

\* Mutant: the switch has no default case: a status that is neither 401 nor
\* 200 falls through to the decoding of the body.
Token_NoDefault(r, t) ==
    IF ~r.sent THEN [err |-> "transport", token |-> NoToken]
    ELSE IF r.status = StatusUnauthorized
         THEN [err |-> "ErrRetrieveToken: unauthorized", token |-> NoToken]
    ELSE IF r.status = StatusOK /\ ~HasJSONPrefix(r.ctype)
         THEN [err |-> "ErrRetrieveToken: unexpected content-type",
               token |-> NoToken]
    ELSE IF ~r.readable THEN [err |-> "read", token |-> NoToken]
    ELSE extractToken(r.body, t)

\* TokenSource.Token for the reply r that arrives at time t.
Token(r, t) ==
    IF ~r.sent THEN [err |-> "transport", token |-> NoToken]
    ELSE IF r.status = StatusUnauthorized
         THEN [err |-> "ErrRetrieveToken: unauthorized", token |-> NoToken]
    ELSE IF r.status = StatusOK
         THEN IF ~HasJSONPrefix(r.ctype)
              THEN [err |-> "ErrRetrieveToken: unexpected content-type",
                    token |-> NoToken]
              ELSE IF ~r.readable THEN [err |-> "read", token |-> NoToken]
              ELSE extractToken(r.body, t)
    ELSE [err |-> "ErrRetrieveToken", token |-> NoToken]

\* ---- oauth2.ReuseTokenSource(nil, &auth.TokenSource{...}), as main.run
\* wires it in front of every request. The library keeps one token under a
\* mutex: Token() locks, returns the kept token while it is valid, and
\* otherwise asks the TokenSource, keeping the new token only on success.
\* A token counts as expired expiryDelta seconds before its Expiry.

expiryDelta == 10

\* Mutant: a token expires at its Expiry, with no margin.
expired_NoMargin(t, at) == t.Expiry < at

expired(t, at) == t.Expiry - expiryDelta < at

Valid(t, at) == t.set /\ t.AccessToken # "" /\ ~expired(t, at)

\* Mutant: the kept token is read and replaced without the mutex.
Unlocked_Always(m) == TRUE

\* s.mu.Lock() goes through when no caller holds the mutex.
Unlocked(m) == m = 0

\* ---- what a caller observed, in the terms of the claims: no usable token
\* ("absent"), a token at least 10 s from its expiry ("fresh"), one inside
\* its last 10 s ("margin"), one at or past its expiry ("expired").
Age(t, at) ==
    IF ~t.set \/ t.AccessToken = "" THEN "absent"
    ELSE IF at + 10 <= t.Expiry THEN "fresh"
    ELSE IF at < t.Expiry THEN "margin"
    ELSE "expired"

\* ---- actions

\* Time passes.
Tick ==
    /\ \E t \in Instants : t > now /\ now' = t
    /\ UNCHANGED <<tok, mu, cpc, fetched, seen, joined, cerr, since, anyDone>>
    /\ UNCHANGED <<doVars, fetchVars, srvVars, runVars>>

\* Caller c calls Token() and goes for the mutex.
Request(c) ==
    /\ cpc[c] = "idle"
    /\ cpc' = [cpc EXCEPT ![c] = "lock"]
    /\ joined' = [joined EXCEPT ![c] =
                      IF ~anyDone /\ Age(tok, now) \in {"absent", "expired"}
                      THEN "stale" ELSE "other"]
    /\ UNCHANGED <<now, tok, mu, fetched, seen, cerr, since, anyDone>>
    /\ UNCHANGED <<doVars, fetchVars, srvVars, runVars>>

\* Caller c gets the mutex and looks at the kept token: a valid one is
\* returned at once, otherwise the request to the token endpoint goes out
\* with the mutex held.
Acquire(c) ==
    /\ cpc[c] = "lock"
    /\ Unlocked(mu)
    /\ seen' = [seen EXCEPT ![c] = Age(tok, now)]
    /\ IF Valid(tok, now)
       THEN /\ cpc' = [cpc EXCEPT ![c] = "done"]
            /\ anyDone' = TRUE
            /\ UNCHANGED <<mu, fetched, since>>
       ELSE /\ cpc' = [cpc EXCEPT ![c] = "fetch"]
            /\ mu' = c
            /\ fetched' = [fetched EXCEPT ![c] = fetched[c] + 1]
            /\ since' = [since EXCEPT ![c] = now]
            /\ UNCHANGED anyDone
    /\ UNCHANGED <<now, tok, joined, cerr>>
    /\ UNCHANGED <<doVars, fetchVars, srvVars, runVars>>

\* Mutant: the result of the TokenSource is kept whatever its error.
Keep_Always(old, res) == res.token

\* reuseTokenSource.Token: on an error of the TokenSource the kept token
\* stays, otherwise the new token takes its place.
Keep(old, res) == IF res.err # "nil" THEN old ELSE res.token

\* The token endpoint's reply r arrives at caller c: TokenSource.Token
\* returns, the kept token is settled and the mutex released.
FetchReturnWith(c, r) ==
    /\ cpc[c] = "fetch"
    /\ LET res == Token(r, now)
       IN  /\ tok' = Keep(tok, res)
           /\ cerr' = [cerr EXCEPT ![c] = res.err # "nil"]
    /\ mu' = 0
    /\ cpc' = [cpc EXCEPT ![c] = "done"]
    /\ since' = [since EXCEPT ![c] = 0]
    /\ anyDone' = TRUE
    /\ UNCHANGED <<now, fetched, seen, joined>>
    /\ UNCHANGED <<doVars, srvVars, runVars>>

FetchReturn(c) ==
    \E r \in TokenReplies : FetchReturnWith(c, r) /\ UNCHANGED fetchVars

\* The same step with the call of TokenSource.Token written down: the reply,
\* what Token made of it, the token kept until then, when the request went
\* out.
FetchObserved(c) ==
    \E r \in TokenReplies :
        /\ FetchReturnWith(c, r)
        /\ reply' = r
        /\ ret' = Token(r, now)
        /\ before' = tok
        /\ sentAt' = since[c]
        /\ gotAt' = now

\* Every request has returned; the callers come back for another round.
NewRound ==
    /\ \A c \in Callers : cpc[c] \in {"idle", "done"}
    /\ \E c \in Callers : cpc[c] = "done"
    /\ cpc' = [c \in Callers |-> "idle"]
    /\ fetched' = [c \in Callers |-> 0]
    /\ seen' = [c \in Callers |-> "none"]
    /\ joined' = [c \in Callers |-> "none"]
    /\ cerr' = [c \in Callers |-> FALSE]
    /\ anyDone' = FALSE
    /\ reply' = NoReply
    /\ ret' = NoReturn
    /\ before' = NoToken
    /\ sentAt' = 0
    /\ gotAt' = 0
    /\ UNCHANGED <<now, tok, mu, since>>
    /\ UNCHANGED <<doVars, srvVars, runVars>>

AuthNext ==
    \/ Tick
    \/ NewRound
    \/ \E c \in Callers : Request(c)
    \/ \E c \in Callers : Acquire(c)
    \/ \E c \in Callers : FetchReturn(c)

\* =========================================================================
\*                          Times, dates, numbers
\* =========================================================================

\* A time.Time is the number of hours since 0001-01-01 00:00 UTC, the zero
\* time.Time.
IsZero(t) == t = 0

HoursPerDay == 24

IsLeap(y) == (y % 4 = 0 /\ y % 100 # 0) \/ y % 400 = 0

DaysIn(y, m) ==
    IF m = 2 THEN (IF IsLeap(y) THEN 29 ELSE 28)
    ELSE IF m \in {4, 6, 9, 11} THEN 30 ELSE 31

DaysBeforeYear(y) ==
    365 * (y - 1) + ((y - 1) \div 4) - ((y - 1) \div 100) + ((y - 1) \div 400)

DaysBeforeMonth(y, m) ==
    <<0, 31, 59, 90, 120, 151, 181, 212, 243, 273, 304, 334>>[m]
      + (IF m > 2 /\ IsLeap(y) THEN 1 ELSE 0)

\* time.Date(y, m, d, h, 0, 0, 0, time.UTC)
Date(y, m, d, h) ==
    (DaysBeforeYear(y) + DaysBeforeMonth(y, m) + d - 1) * HoursPerDay + h

\* The civil date of day number n (days since 0001-01-01), as <<y, m, d>>.
CivilOfDay(n) ==
    LET z == n + 306
        era == z \div 146097
        doe == z % 146097
        yoe == (doe - (doe \div 1460) + (doe \div 36524) - (doe \div 146096))
                 \div 365
        doy == doe - (365 * yoe + (yoe \div 4) - (yoe \div 100))
        mp == (5 * doy + 2) \div 153
        d == doy - ((153 * mp + 2) \div 5) + 1
        m == IF mp < 10 THEN mp + 3 ELSE mp - 9
        y == yoe + era * 400 + (IF m <= 2 THEN 1 ELSE 0)
    IN  <<y, m, d>>

\* t.Format("2006-01-02"): the date as <<y, m, d>>, the time of day dropped.
FormatDate(t) == CivilOfDay(t \div HoursPerDay)

\* t.Format("2006-01-02 15:04"): <<y, m, d, hour, minute>>.
FormatDateHour(t) == FormatDate(t) \o <<t % HoursPerDay, 0>>

\* time.Parse("2006-01-02", s) for a value s = <<y, m, d>>: the month and the
\* day have to exist; any other value is no date.
ParseDate(s) ==
    IF /\ Len(s) = 3
       /\ s[1] \in 1..9999
       /\ s[2] \in 1..12
       /\ s[3] \in 1..DaysIn(s[1], s[2])
    THEN [ok |-> TRUE, time |-> Date(s[1], s[2], s[3], 0)]
    ELSE [ok |-> FALSE, time |-> 0]

DigitOf(n) == <<"0", "1", "2", "3", "4", "5", "6", "7", "8", "9">>[n + 1]

RECURSIVE Digits(_)
Digits(n) == IF n < 10 THEN <<DigitOf(n)>> ELSE Digits(n \div 10) \o <<DigitOf(n % 10)>>

\* strconv.Itoa
Itoa(n) == IF n < 0 THEN <<"-">> \o Digits(-n) ELSE Digits(n)

\* =========================================================================
\*                              Filter.Query
\* =========================================================================

\* Granularity (iota)
Unspecified == 0
Day == 1
Hour == 2
Week == 3

\* Granularity.String
GranularityString(g) ==
    CASE g = Day -> "day" [] g = Hour -> "hour" [] g = Week -> "week"
      [] OTHER -> "day"

\* A nil *Filter.
NilFilter ==
    [nil |-> TRUE, From |-> 0, To |-> 0, Limit |-> 0,
     Granularity |-> Unspecified, Sources |-> <<>>]

\* Mutant: the limit is added whatever its value.
LimitParam_Always(f) == {<<"limit", Itoa(f.Limit)>>}

\* Lines 116-118.
LimitParam(f) == IF f.Limit # 0 THEN {<<"limit", Itoa(f.Limit)>>} ELSE {}

\* Filter.Query: url.Values as the set of its <<key, value>> pairs (Query
\* adds at most one value for a key).
Query(f) ==
    IF f.nil THEN {}
    ELSE (IF ~IsZero(f.From) THEN {<<"from", FormatDate(f.From)>>} ELSE {})
           \cup (IF ~IsZero(f.To) THEN {<<"to", FormatDate(f.To)>>} ELSE {})
           \cup (IF f.Granularity # Unspecified
                 THEN {<<"granularity", GranularityString(f.Granularity)>>}
                 ELSE {})
           \cup LimitParam(f)

\* The filters Query is tried on: nil, and every combination of unset and
\* set fields, with times at and off midnight.
QueryTimes ==
    {0, Date(2021, 2, 1, 0), Date(2021, 2, 1, 10), Date(2020, 12, 31, 23)}

QueryFilters ==
    {NilFilter}
      \cup [nil : {FALSE}, From : QueryTimes, To : QueryTimes,
            Limit : {0, 10, -1}, Granularity : {Unspecified, Day, Hour, Week},
            Sources : {<<>>, <<"web">>}]

\* f.Query() is called.
QueryCall ==
    /\ ~qdone
    /\ q' = Query(qf)
    /\ qdone' = TRUE
    /\ UNCHANGED <<qf, aggVars, doVars, authVars, fetchVars, runVars>>

\* The caller builds its next filter.
QueryNew ==
    /\ qdone
    /\ qf' \in QueryFilters
    /\ q' = {}
    /\ qdone' = FALSE
    /\ UNCHANGED <<aggVars, doVars, authVars, fetchVars, runVars>>

QueryNext == QueryCall \/ QueryNew

QueryIdle ==
    /\ qf = NilFilter
    /\ q = {}
    /\ qdone = FALSE

\* =========================================================================
\*                  The CSV server: cmd/frontendcsv/http
\* =========================================================================

\* ---- requests

Endpoints == {"/labels", "/messages", "/pages", "/sessions"}

\* The handlers that loop over day windows; the other two loop over the
\* sources only.
DayWindowed(e) == e \in {"/labels", "/pages"}

\* Form values of from and to: <<>> is the empty string (also what Form.Get
\* gives for no value), <<y, m, d>> the text y-m-d.
RequestDates == {<<2021, 2, d>> : d \in 1..MaxDay}
BadDate == <<2021, 2, 30>>
DateValues == {<<>>} \cup RequestDates \cup {BadDate}

\* Form values of limit (strings as sequences of characters).
LimitValues == {<<>>, <<"2">>, <<"5">>, <<"0">>, <<"-", "1">>, <<"a">>}

GranularityValues == {"", "hour", "week"}

\* r.Form["sources"]: <<>> when the key is not there.
SourceValues == {<<>>, <<"web">>, <<"facebook", "web">>}

\* time.Now() at line 180, at midnight and in the day.
Nows == {Date(2021, 2, 2, 0), Date(2021, 2, 2, 10)}

\* A request: formOK = FALSE is a form ParseForm rejects; now1 and
\* now1 + lag are the clock at lines 180 and 181.
Requests ==
    [endpoint : Endpoints, formOK : {TRUE}, from : DateValues,
     to : DateValues, limit : {<<>>}, granularity : {""},
     sources : SourceValues, now1 : Nows, lag : {0, 1}]
      \cup [endpoint : Endpoints, formOK : BOOLEAN, from : {<<2021, 2, 1>>},
            to : {<<2021, 2, 2>>}, limit : LimitValues,
            granularity : GranularityValues, sources : {<<>>, <<"web">>},
            now1 : {Date(2021, 2, 2, 10)}, lag : {0}]

NoRequest ==
    [endpoint |-> "/labels", formOK |-> FALSE, from |-> <<>>, to |-> <<>>,
     limit |-> <<>>, granularity |-> "", sources |-> <<>>, now1 |-> 0,
     lag |-> 0]

\* ---- filterFromRequest

\* Mutant: the comparison of from and to is missing.
Equal_Never(a, b) == FALSE

\* time.Time.Equal
Equal(a, b) == a = b

filterFromRequest(r) ==
    LET base == [nil |-> FALSE, To |-> r.now1,
                 From |-> r.now1 + r.lag - HoursPerDay, Limit |-> 10,
                 Granularity |-> Day, Sources |-> <<>>]
        fromDate == ParseDate(r.from)
        toDate == ParseDate(r.to)
        lim == Atoi(r.limit)
        f1 == IF r.from # <<>> THEN [base EXCEPT !.From = fromDate.time] ELSE base
        f2 == IF r.to # <<>> THEN [f1 EXCEPT !.To = toDate.time] ELSE f1
        f3 == IF r.limit # <<>> THEN [f2 EXCEPT !.Limit = lim.n] ELSE f2
        f4 == IF r.granularity = "hour" THEN [f3 EXCEPT !.Granularity = Hour] ELSE f3
        f5 == [f4 EXCEPT !.Sources = IF r.sources = <<>> THEN <<"web", "facebook">>
                                      ELSE r.sources]
    IN  IF ~r.formOK THEN [err |-> "form", f |-> NilFilter]
        ELSE IF r.from # <<>> /\ ~fromDate.ok THEN [err |-> "from", f |-> NilFilter]
        ELSE IF r.to # <<>> /\ ~toDate.ok THEN [err |-> "to", f |-> NilFilter]
        ELSE IF r.limit # <<>> /\ ~lim.ok THEN [err |-> "limit", f |-> NilFilter]
        ELSE IF Equal(f3.To, f3.From) THEN [err |-> "equal", f |-> NilFilter]
        ELSE [err |-> "nil", f |-> f5]

\* ---- the handlers

Header(e) ==
    CASE e = "/labels" -> <<"date", "count", "id", "text", "source">>
      [] e = "/pages" -> <<"date", "host", "path", "sessions", "messages", "source">>
      [] OTHER -> <<"date", "count", "source">>

formatTime(t, g) == IF g = Hour THEN FormatDateHour(t) ELSE FormatDate(t)

\* What the client hands back for one call: its rows in upstream's order
\* (date is the row's own date, val stands for its other columns), or an
\* error and no rows.
UpstreamRows ==
    {<<>>,
     <<[date |-> Date(2021, 2, 2, 13), val |-> "b"],
       [date |-> Date(2021, 2, 1, 0), val |-> "a"]>>}

CallResults ==
    {[ok |-> FALSE, rows |-> <<>>]} \cup [ok : {TRUE}, rows : UpstreamRows]

\* Mutant: the window is half a day long.
WindowEnd_HalfDay(t) == t + 12

\* temp.To = t.Add(24 * time.Hour)
WindowEnd(t) == t + HoursPerDay

\* t = t.Add(24 * time.Hour)
NextWindow(t) == t + HoursPerDay

\* temp of the day-windowed handlers: lines 65-68.
SubFilter(f, t, i) ==
    [f EXCEPT !.From = t, !.To = WindowEnd(t), !.Sources = <<f.Sources[i]>>]

\* Mutant: the range is cut to the first day.
SourceFilter_FirstDay(f, i) ==
    [f EXCEPT !.To = f.From + HoursPerDay, !.Sources = <<f.Sources[i]>>]

\* temp of the per-source handlers: lines 91-92.
SourceFilter(f, i) == [f EXCEPT !.Sources = <<f.Sources[i]>>]

\* The rows of a day-windowed call, as the handler appends them to out.
WindowRows(rows, f, t, i) ==
    [k \in 1..Len(rows) |->
        <<formatTime(t, f.Granularity), rows[k].val, f.Sources[i]>>]

\* The rows of a per-source call.
SourceRows(rows, f, i) ==
    [k \in 1..Len(rows) |->
        <<formatTime(rows[k].date, f.Granularity), rows[k].val, f.Sources[i]>>]

\* t.Before(f.To)
More(f, t) == t < f.To

\* Mutant: the loops are swapped, the sources outside and the windows inside.
Advance_SourcesOuter(f, t, i) ==
    IF More(f, NextWindow(t)) THEN [t |-> NextWindow(t), i |-> i]
    ELSE IF i < Len(f.Sources) THEN [t |-> f.From, i |-> i + 1]
    ELSE [t |-> NextWindow(t), i |-> 1]

\* The iteration after (t, i) of the day-windowed loops: the next source, or
\* the first source of the next window.
Advance(f, t, i) ==
    IF i < Len(f.Sources) THEN [t |-> t, i |-> i + 1]
    ELSE [t |-> NextWindow(t), i |-> 1]

\* Mutant: the new rows go in front of the ones already written.
WriteAll_InFront(done, rows) == rows \o done

\* csv.Writer.WriteAll: the records after the ones already written.
WriteAll(done, rows) == done \o rows

\* make([][]string, 0, f.Limit) panics on a negative capacity.
MakePanics(f) == f.Limit < 0

\* ---- actions

\* ServeHTTP up to the handler's first call: lines 35-43, and the entry of
\* h.h. A filter error is answered 400; a panic leaves the connection
\* without a response.
AggServe ==
    /\ apc = "start"
    /\ LET res == filterFromRequest(req)
       IN  IF res.err # "nil"
           THEN /\ status' = 400
                /\ wire' = <<<<res.err>>>>
                /\ apc' = "end"
                /\ UNCHANGED <<filt, wt, cbuf, herr>>
           ELSE /\ filt' = res.f
                /\ cbuf' = <<Header(req.endpoint)>>
                /\ wt' = res.f.From
                /\ IF ~DayWindowed(req.endpoint) /\ MakePanics(res.f)
                   THEN apc' = "end" /\ herr' = "panic"
                   ELSE apc' = "loop" /\ herr' = "pending"
                /\ UNCHANGED <<status, wire>>
    /\ UNCHANGED <<req, si, issued, answers, out, written>>
    /\ UNCHANGED <<queryVars, doVars, authVars, fetchVars, runVars>>

\* Mutant: temp is the handler's filter itself, not a copy of it.
Original_Aliased(f, temp) == temp

\* temp := *f: the handler's filter after temp was set up. temp is a copy,
\* and its Sources a new slice, so nothing of f is written.
Original(f, temp) == f

\* The handler calls the client for the current iteration.
AggIssue ==
    /\ apc = "loop"
    /\ IF DayWindowed(req.endpoint)
       THEN /\ More(filt, wt)
            /\ issued' = Append(issued, SubFilter(filt, wt, si))
            /\ filt' = Original(filt, SubFilter(filt, wt, si))
       ELSE /\ si <= Len(filt.Sources)
            /\ issued' = Append(issued, SourceFilter(filt, si))
            /\ filt' = Original(filt, SourceFilter(filt, si))
    /\ apc' = "call"
    /\ UNCHANGED <<req, status, wt, si, answers, out, written, cbuf, wire, herr>>
    /\ UNCHANGED <<queryVars, doVars, authVars, fetchVars, runVars>>

\* The client returns. An error ends the handler and ServeHTTP (the
\* response is whatever was flushed, under status 200).
AggReturn ==
    /\ apc = "call"
    /\ \E res \in CallResults :
         /\ answers' = IF res.ok THEN Append(answers, res.rows) ELSE answers
         /\ IF ~res.ok
            THEN /\ herr' = "call"
                 /\ apc' = "end"
                 /\ status' = 200
                 /\ UNCHANGED <<wt, si, out>>
            ELSE IF DayWindowed(req.endpoint)
            THEN IF MakePanics(filt)
                 THEN /\ herr' = "panic"
                      /\ apc' = "end"
                      /\ UNCHANGED <<status, wt, si, out>>
                 ELSE /\ out' = WindowRows(res.rows, filt, wt, si)
                      /\ apc' = "write"
                      /\ UNCHANGED <<status, wt, si, herr>>
            ELSE /\ out' = out \o SourceRows(res.rows, filt, si)
                 /\ si' = si + 1
                 /\ apc' = "loop"
                 /\ UNCHANGED <<status, wt, herr>>
    /\ UNCHANGED <<req, filt, issued, written, cbuf, wire>>
    /\ UNCHANGED <<queryVars, doVars, authVars, fetchVars, runVars>>

\* w.WriteAll(out) of a day-windowed handler: the records go to the
\* csv.Writer, which flushes them; when that fails the handler returns.
AggWrite ==
    /\ apc = "write"
    /\ \E ok \in BOOLEAN :
         IF ok
         THEN /\ written' = WriteAll(written, out)
              /\ wire' = wire \o cbuf \o out
              /\ cbuf' = <<>>
              /\ LET n == Advance(filt, wt, si)
                 IN  wt' = n.t /\ si' = n.i
              /\ apc' = "loop"
              /\ UNCHANGED herr
         ELSE /\ herr' = "write"
              /\ apc' = "end"
              /\ UNCHANGED <<written, wire, cbuf, wt, si>>
    /\ status' = 200
    /\ UNCHANGED <<req, filt, issued, answers, out>>
    /\ UNCHANGED <<queryVars, doVars, authVars, fetchVars, runVars>>

\* The loops are over. A day-windowed handler returns nil and ServeHTTP
\* flushes; a per-source handler returns w.WriteAll(out).
AggFinish ==
    /\ apc = "loop"
    /\ IF DayWindowed(req.endpoint)
       THEN /\ ~More(filt, wt)
            /\ herr' = "nil"
            /\ UNCHANGED written
            /\ \E ok \in BOOLEAN :
                 IF ok THEN wire' = wire \o cbuf /\ cbuf' = <<>>
                 ELSE UNCHANGED <<wire, cbuf>>
       ELSE /\ si > Len(filt.Sources)
            /\ \E ok \in BOOLEAN :
                 IF ok
                 THEN /\ written' = WriteAll(written, out)
                      /\ wire' = wire \o cbuf \o out
                      /\ cbuf' = <<>>
                      /\ herr' = "nil"
                 ELSE /\ herr' = "write"
                      /\ UNCHANGED <<written, wire, cbuf>>
    /\ apc' = "end"
    /\ status' = 200
    /\ UNCHANGED <<req, filt, wt, si, issued, answers, out>>
    /\ UNCHANGED <<queryVars, doVars, authVars, fetchVars, runVars>>

AggNext == AggServe \/ AggIssue \/ AggReturn \/ AggWrite \/ AggFinish

\* A request has arrived.
AggInit ==
    /\ apc = "start"
    /\ req \in Requests
    /\ filt = NilFilter
    /\ status = 0
    /\ wt = 0
    /\ si = 1
    /\ issued = <<>>
    /\ answers = <<>>
    /\ out = <<>>
    /\ written = <<>>
    /\ cbuf = <<>>
    /\ wire = <<>>
    /\ herr = "pending"

AggIdle ==
    /\ apc = "start"
    /\ req = NoRequest
    /\ filt = NilFilter
    /\ status = 0
    /\ wt = 0
    /\ si = 1
    /\ issued = <<>>
    /\ answers = <<>>
    /\ out = <<>>
    /\ written = <<>>
    /\ cbuf = <<>>
    /\ wire = <<>>
    /\ herr = "pending"

\* =========================================================================
\*          do behind the Doer of main.run: oauth2.Transport
\* =========================================================================

\* main.run gives the Client the Doer oauth2.NewClient(ctx,
\* oauth2.ReuseTokenSource(nil, &auth.TokenSource{...})): an http.Client
\* whose transport, on every round trip, asks the token source for a token
\* and sends a clone of the request with that token in Authorization. do
\* calls this Doer once per attempt, with the same *http.Request.

\* What newRequest builds: GET, the endpoint's URL, Accept. No
\* Authorization header is set on it.
PipeRequests ==
    [method : {"GET"}, path : {"sessions/messages", "chatlabels/added"},
     accept : {"application/json"}, authorization : {"none"}]

\* No request.
NoWire == [method |-> "", path |-> "", accept |-> "", authorization |-> "none"]

\* oauth2.Transport.RoundTrip: req2 := cloneRequest(req);
\* token.SetAuthHeader(req2). r itself is left as it is.
Attach(r, t) == [r EXCEPT !.authorization = t.AccessToken]

\* Mutant: the transport's source is the TokenSource itself, with no
\* ReuseTokenSource in front: every round trip fetches.
Reuse_Never(t, at) == FALSE

\* reuseTokenSource.Token: if s.t.Valid() { return s.t, nil }.
Reuse(t, at) == Valid(t, at)

\* c.doer.Do(r) of line 362 with the Doer of main.run: the transport gets
\* its token, from the kept one or from the token endpoint, and the
\* request goes out with it; without a token Do returns the error and do
\* returns it (lines 363-365).
PipeSend ==
    /\ pc = "call"
    /\ calls' = Bump(calls)
    /\ \E r \in TokenReplies :
         LET asked == ~Reuse(tok, now)
             res == IF asked THEN Token(r, now)
                    ELSE [err |-> "nil", token |-> tok]
         IN  /\ tok' = IF asked THEN Keep(tok, res) ELSE tok
             /\ refetch' = (refetch \/ (asked /\ calls >= 1))
             /\ IF res.err # "nil"
                THEN LET o == OnTransportError(v)
                     IN  /\ pc' = o.pc
                         /\ err' = o.err
                         /\ v' = o.v
                         /\ woken' = o.woken
                         /\ unclosed' = Unclosed(o, unclosed)
                         /\ UNCHANGED <<first, last>>
                ELSE /\ pc' = "inflight"
                     /\ last' = Attach(rq, res.token)
                     /\ first' = IF calls = 0 THEN Attach(rq, res.token)
                                 ELSE first
                     /\ UNCHANGED <<err, v, woken, unclosed>>
    /\ UNCHANGED <<n429, n429p, resp, cancelled, cutShort, rq>>
    /\ UNCHANGED <<now, mu, cpc, fetched, seen, joined, cerr, since, anyDone>>
    /\ UNCHANGED <<fetchVars, srvVars, clientVars>>

\* The responses of the metrics API behind the transport: the statuses
\* with and without a wait, one body.
PipeResponses ==
    {r \in Responses :
        /\ r.status \in {StatusOK, StatusTooManyRequests, 500}
        /\ r.retryAfter \in {<<>>, <<"0">>, <<"2">>}
        /\ r.readable
        /\ r.body = [env |-> TRUE, data |-> [kind |-> "rows", rows |-> <<"r1">>]]}

PipeRecv == DoRecvFrom(PipeResponses)

\* Time passes while do waits for the Retry-After to be over.
PipeTick == pc = "wait" /\ Tick

PipeNext ==
    \/ PipeSend
    \/ PipeRecv
    \/ DoFail
    \/ DoResume
    \/ TimerFire
    \/ Cancel
    \/ PipeTick

PipeInit ==
    /\ rq \in PipeRequests
    /\ first = NoWire
    /\ last = NoWire
    /\ refetch = FALSE

PipeIdle ==
    /\ rq = NoWire
    /\ first = NoWire
    /\ last = NoWire
    /\ refetch = FALSE

\* =========================================================================
\*              One Client shared by concurrent callers
\* =========================================================================

\* main.run builds one Client and hands it to the server; net/http serves
\* every request on a goroutine of its own, so the typed endpoint methods
\* run concurrently on that one Client. Each goes through newRequest and
\* then do; the accesses of the Client's fields are the steps.

BaseURL == "https://sage.kindly.ai/api/v1/stats/bot"
DefaultClient == "http.DefaultClient"

\* A string field caught between the two word stores of an assignment,
\* the length stored and the data pointer still nil.
Torn == "torn"

\* The Client as constructed: BaseURL set by the caller or left empty
\* (main.run leaves it empty), doer set (main.run, NewClient) or nil (a
\* Client literal).
Constructed == [BaseURL : {"", "https://example.test"},
                doer : {"nil", DefaultClient, "oauth2 client"}]

\* Line 324: if c.BaseURL == "".
CheckBase(c) ==
    /\ rpc[c] = "idle"
    /\ rpc' = [rpc EXCEPT ![c] =
                  IF client.BaseURL = "" THEN "store" ELSE "format"]
    /\ UNCHANGED <<client, url>>

\* Line 325, c.BaseURL = BaseURL: a string is two words, stored one after
\* the other in an order the compiler picks. After the first store the
\* field still reads as empty (data first) or has a length and no data
\* (length first).
StoreBase(c) ==
    /\ rpc[c] = "store"
    /\ \E half \in {"", Torn} :
         client' = [client EXCEPT !.BaseURL = half]
    /\ rpc' = [rpc EXCEPT ![c] = "store2"]
    /\ UNCHANGED url

\* Line 325, the second store.
StoreBaseEnd(c) ==
    /\ rpc[c] = "store2"
    /\ client' = [client EXCEPT !.BaseURL = BaseURL]
    /\ rpc' = [rpc EXCEPT ![c] = "format"]
    /\ UNCHANGED url

\* Line 328: fmt.Sprintf("%s/%s/%s", c.BaseURL, ...). Formatting a string
\* with a length and no data faults.
Format(c) ==
    /\ rpc[c] = "format"
    /\ url' = [url EXCEPT ![c] = client.BaseURL]
    /\ rpc' = [rpc EXCEPT ![c] =
                  IF client.BaseURL = Torn THEN "fault" ELSE "doer"]
    /\ UNCHANGED client

\* Line 356: if c.doer == nil.
CheckDoer(c) ==
    /\ rpc[c] = "doer"
    /\ rpc' = [rpc EXCEPT ![c] =
                  IF client.doer = "nil" THEN "setdoer" ELSE "send"]
    /\ UNCHANGED <<client, url>>

\* Line 357: c.doer = http.DefaultClient.
SetDoer(c) ==
    /\ rpc[c] = "setdoer"
    /\ client' = [client EXCEPT !.doer = DefaultClient]
    /\ rpc' = [rpc EXCEPT ![c] = "send"]
    /\ UNCHANGED url

\* Lines 361-396: the loop of do runs to its return, and the caller is
\* free for its next request.
Served(c) ==
    /\ rpc[c] = "send"
    /\ rpc' = [rpc EXCEPT ![c] = "idle"]
    /\ url' = [url EXCEPT ![c] = ""]
    /\ UNCHANGED client

ClientNext ==
    \E c \in Callers :
        /\ \/ CheckBase(c)
           \/ StoreBase(c)
           \/ StoreBaseEnd(c)
           \/ Format(c)
           \/ CheckDoer(c)
           \/ SetDoer(c)
           \/ Served(c)
        /\ UNCHANGED <<doVars, authVars, fetchVars, srvVars, pipeVars>>

ClientInit ==
    /\ client \in Constructed
    /\ rpc = [c \in Callers |-> "idle"]
    /\ url = [c \in Callers |-> ""]

ClientIdle ==
    /\ client = [BaseURL |-> BaseURL, doer |-> DefaultClient]
    /\ rpc = [c \in Callers |-> "idle"]
    /\ url = [c \in Callers |-> ""]

RunIdle == PipeIdle /\ ClientIdle

\* =========================================================================
\*                             Specifications
\* =========================================================================

\* A do that is about to start: the caller passes a fresh target (the typed
\* endpoint methods) or none.
DoInit ==
    /\ pc = "call"
    /\ calls = 0
    /\ n429 = 0
    /\ n429p = 0
    /\ resp = NoResp
    /\ cancelled \in BOOLEAN
    /\ woken = "none"
    /\ cutShort = FALSE
    /\ err = Pending
    /\ v \in {[present |-> p, val |-> <<>>] : p \in BOOLEAN}
    /\ unclosed = 0

DoIdle ==
    /\ pc = "call"
    /\ calls = 0
    /\ n429 = 0
    /\ n429p = 0
    /\ resp = NoResp
    /\ cancelled = FALSE
    /\ woken = "none"
    /\ cutShort = FALSE
    /\ err = Pending
    /\ v = [present |-> TRUE, val |-> <<>>]
    /\ unclosed = 0

\* ReuseTokenSource(nil, src): no token is kept at the start.
AuthInit ==
    /\ now = 0
    /\ tok = NoToken
    /\ mu = 0
    /\ cpc = [c \in Callers |-> "idle"]
    /\ fetched = [c \in Callers |-> 0]
    /\ seen = [c \in Callers |-> "none"]
    /\ joined = [c \in Callers |-> "none"]
    /\ cerr = [c \in Callers |-> FALSE]
    /\ since = [c \in Callers |-> 0]
    /\ anyDone = FALSE
    /\ reply = NoReply
    /\ ret = NoReturn
    /\ before = NoToken
    /\ sentAt = 0
    /\ gotAt = 0

DoSpecInit == DoInit /\ AuthInit /\ QueryIdle /\ AggIdle /\ RunIdle

DoSpec == DoSpecInit /\ [][DoNext]_vars

\* The goroutine running do is scheduled, the Doer answers, and a due timer
\* fires. Nothing obliges the caller to cancel.
DoFairSpec ==
    /\ DoSpec
    /\ WF_vars(DoSend)
    /\ WF_vars(DoRecv \/ DoFail)
    /\ WF_vars(DoResume)
    /\ WF_vars(TimerFire)

AuthSpecInit == DoIdle /\ AuthInit /\ QueryIdle /\ AggIdle /\ RunIdle

AuthSpec == AuthSpecInit /\ [][AuthNext]_vars

\* One caller at a time asks the token source, every call of
\* TokenSource.Token written down.
TokenNext ==
    \/ Tick
    \/ NewRound
    \/ Request(1)
    \/ Acquire(1)
    \/ FetchObserved(1)

TokenSpec == AuthSpecInit /\ [][TokenNext]_vars

\* Filter.Query on its own.
QuerySpecInit ==
    /\ DoIdle
    /\ AuthInit
    /\ AggIdle
    /\ RunIdle
    /\ qf \in QueryFilters
    /\ q = {}
    /\ qdone = FALSE

QuerySpec == QuerySpecInit /\ [][QueryNext]_vars

\* The server answering one request, the client's calls answered by
\* whatever the client can return.
AggSpecInit == DoIdle /\ AuthInit /\ QueryIdle /\ AggInit /\ RunIdle

AggSpec == AggSpecInit /\ [][AggNext]_vars

\* One do behind the transport of main.run, no token kept at the start.
PipeSpecInit ==
    DoIdle /\ AuthInit /\ QueryIdle /\ AggIdle /\ PipeInit /\ ClientIdle

PipeSpec == PipeSpecInit /\ [][PipeNext]_vars

\* Concurrent callers of one Client.
ClientSpecInit ==
    DoIdle /\ AuthInit /\ QueryIdle /\ AggIdle /\ PipeIdle /\ ClientInit

ClientSpec == ClientSpecInit /\ [][ClientNext]_vars

\* =========================================================================
\*                       Properties of Client.do
\* =========================================================================

\* do has received at least one response.
Answered == resp # NoResp

\* do returned because of what the last response was (not because the Doer
\* failed on a later attempt).
ReturnedOnResponse == pc = "done" /\ Answered /\ err.kind # "transport"

\* The counters still count exactly.
Exact == calls < MaxCalls

\* The upstream error do builds from a response.
UpstreamErrorOf(r) == [kind |-> "Error", statusCode |-> r.status, body |-> r.body]

\* C1 as stated: after a response a further transport call is issued if and
\* only if the response's status is 429, and do returns on the first
\* response that is not 429 or on cancellation: a do that is still running
\* after a response has just seen a 429, and a do that returned on a
\* response, other than by cancellation, returned on a status that is not
\* 429.
C1_RetryIff429 ==
    /\ (pc # "done" /\ Answered) => resp.status = StatusTooManyRequests
    /\ (ReturnedOnResponse /\ err.kind # "ctx")
          => resp.status # StatusTooManyRequests

\* C1 (amended): a further transport call is issued after a response only
\* if its status is 429 and its Retry-After is absent or an integer; do
\* returns on the first response that is not 429, on a 429 whose Retry-After
\* is present and not an integer, or on cancellation during the wait for an
\* integer Retry-After.
C1_RetryOnlyOn429 ==
    /\ (pc # "done" /\ Answered)
          => /\ resp.status = StatusTooManyRequests
             /\ resp.retryAfter \in {<<>>} \cup IntegerHeaders
    /\ (ReturnedOnResponse /\ resp.status = StatusTooManyRequests)
          => \/ /\ resp.retryAfter \in OtherHeaders
                /\ err.kind \in {"Error", "read"}
             \/ /\ resp.retryAfter \in IntegerHeaders
                /\ cancelled
                /\ err = CtxErr
    /\ (Answered /\ resp.status # StatusTooManyRequests) => pc = "done"

\* A 429 with an integer Retry-After was waited out and the request sent
\* again; another 429 cut the loop for good.
C1_Witness ==
    /\ pc = "done"
    /\ calls = 2
    /\ n429p = 1
    /\ resp.status = StatusTooManyRequests
    /\ resp.retryAfter \in OtherHeaders
    /\ err.kind = "Error"

\* The 200 bodies of the retry test ("" does not decode) and of the spec's
\* scenario ({"data":[]}).
EmptyResultBodies ==
    {Garbage, [env |-> TRUE, data |-> [kind |-> "rows", rows |-> <<>>]]}

\* C2: when the first k calls were answered with 429 and an integer
\* Retry-After and call k+1 is answered with 200, the context not being
\* cancelled, do has returned with call k+1 (exactly k+1 calls), without an
\* error and with an empty result; and do does not stop short of call k+1:
\* with the context not cancelled it does not return on a 429 with an
\* integer Retry-After unless the Doer fails.
C2_CallsAfterRetries ==
    /\ (/\ pc = "done"
        /\ Answered
        /\ resp.status = StatusTooManyRequests
        /\ resp.retryAfter \in IntegerHeaders
        /\ ~cancelled)
          => err = TransportErr
    /\ (/\ Answered
        /\ Exact
        /\ resp.status = StatusOK
        /\ resp.body \in EmptyResultBodies
        /\ n429p = n429
        /\ calls = n429 + 1
        /\ ~cancelled)
          => /\ pc = "done"
             /\ err = NilErr
             /\ v.val = <<>>
             /\ v.present => EndpointReturn(err, v) = [ok |-> TRUE, rows |-> <<>>]

\* The retry test: 429, 429, 200 gives 3 calls.
C2_Witness ==
    /\ pc = "done"
    /\ resp.status = StatusOK
    /\ resp.retryAfter = <<"0">>
    /\ resp.body = Garbage
    /\ n429 = 2
    /\ n429p = 2
    /\ calls = 3
    /\ ~cancelled
    /\ v.present
    /\ err = NilErr

\* C3: when the context is cancelled while do waits out an integer
\* Retry-After, do makes no further transport call and returns the
\* context's error: it is woken on the context's case, its next step is
\* there to be taken, and that step returns the context's error.
C3_CancelCutsWait ==
    /\ [](cutShort => \/ pc = "wait" /\ woken = "ctx" /\ ENABLED DoResume
                      \/ pc = "done" /\ err = CtxErr)
    /\ [][cutShort => calls' = calls]_vars

C3_Witness ==
    /\ cutShort
    /\ pc = "done"
    /\ err = CtxErr
    /\ resp.retryAfter = <<"2">>
    /\ calls = 2

\* C4: once the context is cancelled, do eventually returns, whatever the
\* upstream and the Doer do.
C4_CancelEndsDo == cancelled ~> (pc = "done")

\* C5 as stated: a status above 399 other than 429 ends do with that one
\* call, an error carrying the status and the body, an unwritten target and
\* no result from the endpoint method.
C5_UpstreamError ==
    (Answered /\ resp.status > 399 /\ resp.status # StatusTooManyRequests)
        => /\ pc = "done"
           /\ (n429 = 0 => calls = 1)
           /\ err = UpstreamErrorOf(resp)
           /\ v.val = <<>>
           /\ ~EndpointReturn(err, v).ok

\* C5 (amended): as C5, the error carrying the status and the body when the
\* body can be read, and being the read error when it cannot.
C5_UpstreamErrorOrReadError ==
    (Answered /\ resp.status > 399 /\ resp.status # StatusTooManyRequests)
        => /\ pc = "done"
           /\ (n429 = 0 => calls = 1)
           /\ (resp.readable => err = UpstreamErrorOf(resp))
           /\ (~resp.readable => err = ReadErr)
           /\ v.val = <<>>
           /\ ~EndpointReturn(err, v).ok

\* The test's 500 on the first call.
C5_Witness ==
    /\ pc = "done"
    /\ calls = 1
    /\ resp.status = 500
    /\ resp.readable
    /\ v.present
    /\ err.kind = "Error"
    /\ err.statusCode = 500
    /\ err.body = resp.body

\* C6 as stated: a 429 whose Retry-After is present and not an integer ends
\* do, with no further call, on an upstream error carrying 429 and the body.
C6_BadRetryAfterTerminal ==
    (Answered /\ resp.status = StatusTooManyRequests
              /\ resp.retryAfter \in OtherHeaders)
        => /\ pc = "done"
           /\ calls = n429
           /\ err = UpstreamErrorOf(resp)

\* C6 (amended): as C6, the error carrying 429 and the body when the body
\* can be read, and being the read error when it cannot.
C6_BadRetryAfterTerminalOrReadError ==
    (Answered /\ resp.status = StatusTooManyRequests
              /\ resp.retryAfter \in OtherHeaders)
        => /\ pc = "done"
           /\ calls = n429
           /\ (resp.readable => err = UpstreamErrorOf(resp))
           /\ (~resp.readable => err = ReadErr)

C6_Witness ==
    /\ pc = "done"
    /\ calls = 1
    /\ resp.status = StatusTooManyRequests
    /\ resp.retryAfter = <<"1", "s">>
    /\ resp.readable
    /\ err.statusCode = StatusTooManyRequests
    /\ err.body = resp.body

\* C7: a 200 whose body does not decode as the envelope ends do with nil and
\* the target as the caller passed it.
C7_EnvelopeFailureSwallowed ==
    (Answered /\ resp.status = StatusOK /\ (~resp.body.env \/ ~resp.readable))
        => /\ pc = "done"
           /\ err = NilErr
           /\ v.val = <<>>

C7_Witness ==
    /\ pc = "done"
    /\ resp.status = StatusOK
    /\ ~resp.body.env
    /\ resp.readable
    /\ v.present
    /\ err = NilErr

\* C8: a 200 whose envelope decodes ends do: with no target, with nil and
\* nothing decoded; with a target, with the data field's rows in it, or with
\* the error of unmarshalling the data.
C8_DataIntoTarget ==
    (Answered /\ resp.status = StatusOK /\ resp.body.env /\ resp.readable)
        => /\ pc = "done"
           /\ ~v.present => (err = NilErr /\ v.val = <<>>)
           /\ (v.present /\ resp.body.data.kind = "rows")
                 => (err = NilErr /\ v.val = resp.body.data.rows)
           /\ (v.present /\ resp.body.data.kind = "null")
                 => (err = NilErr /\ v.val = <<>>)
           /\ (v.present /\ resp.body.data.kind \in {"mismatch", "absent"})
                 => err = UnmarshalErr

C8_Witness ==
    /\ pc = "done"
    /\ resp.status = StatusOK
    /\ resp.body.env
    /\ resp.body.data = [kind |-> "rows", rows |-> <<"r1">>]
    /\ v = [present |-> TRUE, val |-> <<"r1">>]
    /\ err = NilErr

\* =========================================================================
\*                   Properties of the cached credential
\* =========================================================================

RECURSIVE FetchedUpTo(_)
FetchedUpTo(n) == IF n = 0 THEN 0 ELSE fetched[n] + FetchedUpTo(n - 1)

\* Token-endpoint calls of the current round.
RoundCalls == FetchedUpTo(NCallers)

\* Every caller called Token() before any request of the round had
\* returned, found the credential absent or expired, and has its answer.
AllJoinedStaleAndDone ==
    \A c \in Callers : cpc[c] = "done" /\ joined[c] = "stale"

FailedReply(r) ==
    /\ r.sent
    /\ \/ r.status # StatusOK
       \/ r.ctype = "text/plain"
       \/ r.readable /\ ~r.body.decodes

\* The errors errors.Is finds ErrRetrieveToken in.
WrapsErrRetrieveToken ==
    {"ErrRetrieveToken", "ErrRetrieveToken: unauthorized",
     "ErrRetrieveToken: unexpected content-type"}

\* C11: a fetch that the token endpoint fails (401, another non-200 status,
\* a 200 that is not application/json, an undecodable body) returns an error
\* and no token, and the kept credential is what it was before the fetch.
C11_FailedFetchKeepsCache ==
    FailedReply(reply)
        => /\ ret.err \notin {"nil", "pending"}
           /\ ret.token = NoToken
           /\ cerr[1]
           /\ tok = before

\* A refresh failed on a 500 while an expired credential was kept, and the
\* credential is still there.
C11_Witness ==
    /\ reply.sent
    /\ reply.status = 500
    /\ before.set
    /\ before.AccessToken = "a"
    /\ tok = before

\* C12: on every status other than 200, Token returns no token and an error
\* that wraps ErrRetrieveToken.
C12_Non200WrapsErrRetrieveToken ==
    (reply.sent /\ reply.status # StatusOK)
        => /\ ret.token = NoToken
           /\ ret.err \in WrapsErrRetrieveToken

\* Token returned the bare ErrRetrieveToken on a 500.
C12_Witness ==
    /\ reply.sent
    /\ reply.status = 500
    /\ ret.err = "ErrRetrieveToken"

\* The fetch went through: a readable application/json 200 that decodes.
FetchedOK ==
    /\ reply.sent
    /\ reply.status = StatusOK
    /\ reply.ctype # "text/plain"
    /\ reply.readable
    /\ reply.body.decodes

\* C13: a successful fetch yields a credential whose token is the reply's
\* jwt and whose expiry is the time the reply was decoded plus ttl seconds,
\* never earlier than the time the request went out plus ttl; the kept
\* credential is that one, nothing of the previous one in it.
C13_FreshCredential ==
    FetchedOK
        => /\ ret.err = "nil"
           /\ ret.token.AccessToken = reply.body.jwt
           /\ ret.token.Expiry = gotAt + reply.body.ttl
           /\ ret.token.Expiry >= sentAt + reply.body.ttl
           /\ tok = [set |-> TRUE, AccessToken |-> reply.body.jwt,
                     Expiry |-> gotAt + reply.body.ttl]

\* Token "b" with ttl 300 took the place of the expired token "a"; the
\* reply came after the request went out.
C13_Witness ==
    /\ FetchedOK
    /\ before.set
    /\ before.AccessToken = "a"
    /\ reply.body.jwt = "b"
    /\ reply.body.ttl = 300
    /\ sentAt < gotAt
    /\ tok.AccessToken = "b"
    /\ tok.Expiry = gotAt + 300

\* =========================================================================
\*                      Properties of the CSV server
\* =========================================================================

\* The handler of a day-windowed endpoint is running or has run on a filter
\* with from before to.
DayRun ==
    /\ DayWindowed(req.endpoint)
    /\ ~filt.nil
    /\ filt.From < filt.To

\* The handler has returned nil: the aggregation ran to its end.
Completed == apc = "end" /\ herr = "nil"

\* The windows of the calls made so far start at from, and each call is for
\* the window of the call before it or for the one that starts where that
\* one ends.
WindowsChain ==
    /\ issued # <<>> => issued[1].From = filt.From
    /\ \A k \in 1..(Len(issued) - 1) :
          issued[k + 1].From \in {issued[k].From, issued[k].To}
    /\ \A k \in 1..Len(issued) : issued[k].From < issued[k].To

NWindows == (filt.To - filt.From + HoursPerDay - 1) \div HoursPerDay

\* The sub-queries of a day-windowed aggregation: windows ascending, and in
\* each window the sources in their declared order.
ExpectedDayCalls ==
    LET m == Len(filt.Sources)
    IN  [k \in 1..(NWindows * m) |->
            [filt EXCEPT !.From = filt.From + ((k - 1) \div m) * HoursPerDay,
                         !.To = filt.From + ((k - 1) \div m + 1) * HoursPerDay,
                         !.Sources = <<filt.Sources[((k - 1) % m) + 1]>>]]

IsPrefix(a, b) == Len(a) <= Len(b) /\ a = SubSeq(b, 1, Len(a))

\* C15: the sub-queries of a day-windowed aggregation go out window by
\* window in ascending order and, inside a window, source by source in the
\* declared order, each with its window's bounds and its single source: the
\* calls made so far are always the first of that sequence, and an
\* aggregation that ran to its end made all |windows| x m of them.
C15_SubQueryOrder ==
    DayRun
        => /\ IsPrefix(issued, ExpectedDayCalls)
           /\ Completed => /\ issued = ExpectedDayCalls
                           /\ Len(issued) = NWindows * Len(filt.Sources)

\* from=2021-02-01, to=2021-02-03, the sources web and facebook: four
\* sub-queries, (day 1, web), (day 1, facebook), (day 2, web), (day 2,
\* facebook).
C15_Witness ==
    /\ DayWindowed(req.endpoint)
    /\ Completed
    /\ req.from = <<2021, 2, 1>>
    /\ req.to = <<2021, 2, 3>>
    /\ Len(issued) = 4
    /\ issued[1].From = Date(2021, 2, 1, 0) /\ issued[1].Sources = <<"web">>
    /\ issued[2].From = Date(2021, 2, 1, 0) /\ issued[2].Sources = <<"facebook">>
    /\ issued[3].From = Date(2021, 2, 2, 0) /\ issued[3].Sources = <<"web">>
    /\ issued[4].From = Date(2021, 2, 2, 0) /\ issued[4].Sources = <<"facebook">>
    /\ issued[4].To = Date(2021, 2, 3, 0)

\* The rows of the k-th call of a day-windowed aggregation as they are due
\* in the output: upstream's order, the window's start and the source on
\* each.
DueRows(k) ==
    [n \in 1..Len(answers[k]) |->
        <<formatTime(issued[k].From, filt.Granularity), answers[k][n].val,
          issued[k].Sources[1]>>]

RECURSIVE DueUpTo(_)
DueUpTo(k) == IF k = 0 THEN <<>> ELSE DueUpTo(k - 1) \o DueRows(k)

\* The instant a date column stands for.
InstantOf(tag) ==
    Date(tag[1], tag[2], tag[3], IF Len(tag) = 5 THEN tag[4] ELSE 0)

SourceIndex(src) == CHOOSE j \in 1..Len(filt.Sources) : filt.Sources[j] = src

\* Row a comes no later than row b in the order (window start, source
\* index).
RowOrdered(a, b) ==
    \/ InstantOf(a[1]) < InstantOf(b[1])
    \/ /\ InstantOf(a[1]) = InstantOf(b[1])
       /\ SourceIndex(a[3]) <= SourceIndex(b[3])

\* C16: the rows a day-windowed aggregation has delivered to the row writer
\* are the rows of its calls in the order of the calls, each call's rows in
\* upstream's order, so they are sorted by (window start, source index).
C16_RowOrder ==
    DayRun
        => /\ \E k \in 0..Len(answers) : written = DueUpTo(k)
           /\ apc = "loop" => written = DueUpTo(Len(answers))
           /\ \A i \in 1..Len(written) : \A j \in i..Len(written) :
                 RowOrdered(written[i], written[j])

\* Two windows and two sources, every call with two rows: eight rows in the
\* output.
C16_Witness ==
    /\ DayRun
    /\ Completed
    /\ Len(issued) = 4
    /\ Len(written) = 8
    /\ written[1][2] = "b"
    /\ written[2][2] = "a"
    /\ written[1][1] # written[8][1]
    /\ written[1][3] # written[3][3]

\* C17: when a sub-query of an aggregation fails, the handler is over (no
\* further sub-query goes out) and the row writer has received no row of the
\* aggregation, nor has the response.
C17_NoPartialResult ==
    herr = "call"
        => /\ apc = "end"
           /\ written = <<>>
           /\ \A k \in 1..Len(wire) : wire[k] = Header(req.endpoint)

\* Both values are given, are dates, and are the same date.
SameDateGiven ==
    /\ req.formOK
    /\ req.from \in RequestDates
    /\ req.to = req.from

\* C18: a request whose from equals its to is answered 400 with the
\* validation error, its handler is never run and no call is made; a
\* handler only ever runs on a filter whose from and to differ.
C18_EqualRejected ==
    /\ (apc # "start" /\ SameDateGiven)
          => /\ apc = "end"
             /\ status = 400
             /\ req.limit = <<>> => wire = <<<<"equal">>>>
             /\ herr = "pending"
             /\ issued = <<>>
    /\ status = 400 => issued = <<>> /\ herr = "pending"
    /\ (apc # "start" /\ status # 400) => filt.From # filt.To

\* from=2021-02-02 and to=2021-02-02 were answered 400.
C18_Witness ==
    /\ apc = "end"
    /\ req.from = <<2021, 2, 2>>
    /\ req.to = <<2021, 2, 2>>
    /\ status = 400
    /\ wire = <<<<"equal">>>>
    /\ issued = <<>>

\* The handler of a per-source endpoint is running or has run.
SourceRun == ~DayWindowed(req.endpoint) /\ ~filt.nil

\* The calls of a per-source aggregation: the filter as it is, with one
\* source each, in the declared order.
ExpectedSourceCalls ==
    [k \in 1..Len(filt.Sources) |-> [filt EXCEPT !.Sources = <<filt.Sources[k]>>]]

\* The rows of the k-th call of a per-source aggregation as they are due in
\* the output: upstream's order, each with its own date and the source.
DueSourceRows(k) ==
    [n \in 1..Len(answers[k]) |->
        <<formatTime(answers[k][n].date, filt.Granularity), answers[k][n].val,
          filt.Sources[k]>>]

RECURSIVE DueSourceUpTo(_)
DueSourceUpTo(k) ==
    IF k = 0 THEN <<>> ELSE DueSourceUpTo(k - 1) \o DueSourceRows(k)

\* C19: a per-source aggregation calls the client once per source, in the
\* declared order, each time with the filter's own from and to and that one
\* source: the calls made so far are always the first of that sequence, an
\* aggregation that ran to its end made all m of them, and its output is
\* the calls' rows one call after the other, each row with its own date and
\* its call's source.
C19_PerSource ==
    SourceRun
        => /\ IsPrefix(issued, ExpectedSourceCalls)
           /\ \A k \in 1..Len(issued) :
                 /\ issued[k].From = filt.From
                 /\ issued[k].To = filt.To
           /\ Completed
                 => /\ Len(issued) = Len(filt.Sources)
                    /\ issued = ExpectedSourceCalls
                    /\ Len(answers) = Len(issued)
                    /\ written = DueSourceUpTo(Len(answers))
           /\ ~Completed => written = <<>>

\* /messages over three days with the sources facebook and web: two calls,
\* four rows, each under its own date.
C19_Witness ==
    /\ SourceRun
    /\ Completed
    /\ filt.To - filt.From > HoursPerDay
    /\ Len(issued) = 2
    /\ issued[1].Sources = <<"facebook">>
    /\ issued[2].Sources = <<"web">>
    /\ Len(written) = 4
    /\ written[1] = <<<<2021, 2, 2>>, "b", "facebook">>
    /\ written[2] = <<<<2021, 2, 1>>, "a", "facebook">>
    /\ written[4] = <<<<2021, 2, 1>>, "a", "web">>

\* =========================================================================
\*                       Properties of Filter.Query
\* =========================================================================

\* The keys of the values Query returned.
Keys == {p[1] : p \in q}

\* ymd is <<y, m, d>>, the calendar date that the time t falls on.
IsDateOf(ymd, t) ==
    /\ Len(ymd) = 3
    /\ ymd[2] \in 1..12
    /\ ymd[3] \in 1..31
    /\ Date(ymd[1], ymd[2], ymd[3], 0) <= t
    /\ t < Date(ymd[1], ymd[2], ymd[3], 0) + HoursPerDay

\* C20: Query leaves out every key whose field is the zero value (a zero
\* from or to, granularity Unspecified, limit 0), renders from and to as
\* their YYYY-MM-DD dates, is empty for a nil filter, and for a filter with
\* from and to only is exactly the two parameters from and to.
C20_QueryOmitsZero ==
    qdone
        => /\ qf.nil => q = {}
           /\ Keys \subseteq {"from", "to", "granularity", "limit"}
           /\ IsZero(qf.From) => "from" \notin Keys
           /\ IsZero(qf.To) => "to" \notin Keys
           /\ qf.Granularity = Unspecified => "granularity" \notin Keys
           /\ qf.Limit = 0 => "limit" \notin Keys
           /\ \A p \in q : p[1] = "from" => IsDateOf(p[2], qf.From)
           /\ \A p \in q : p[1] = "to" => IsDateOf(p[2], qf.To)
           /\ (/\ ~qf.nil
               /\ ~IsZero(qf.From)
               /\ ~IsZero(qf.To)
               /\ qf.Granularity = Unspecified
               /\ qf.Limit = 0)
                 => /\ Keys = {"from", "to"}
                    /\ Cardinality(q) = 2

\* From 2021-02-01 10:00 to 2020-12-31 23:00 and nothing else: from=2021-02-01
\* and to=2020-12-31.
C20_Witness ==
    /\ qdone
    /\ qf.From = Date(2021, 2, 1, 10)
    /\ qf.To = Date(2020, 12, 31, 23)
    /\ qf.Limit = 0
    /\ qf.Granularity = Unspecified
    /\ q = {<<"from", <<2021, 2, 1>>>>, <<"to", <<2020, 12, 31>>>>}

\* ---------------------------------------------------------------------
\* The row limit, the handler's filter, the interval handed upstream, the
\* status of a failed aggregation and the source on the wire.

\* The data rows of the response: the records on the wire after the header.
DataRows == IF Len(wire) = 0 THEN 0 ELSE Len(wire) - 1

\* Every answer of the upstream so far held at most filt.Limit rows.
UpstreamKeepsLimit == \A k \in 1..Len(answers) : Len(answers[k]) <= filt.Limit

\* C21: when the upstream returns at most limit rows per call, the data
\* rows of one response never exceed limit (a limit that is a count: zero
\* or more).
C21_RowsWithinLimit ==
    (~filt.nil /\ filt.Limit >= 0 /\ UpstreamKeepsLimit)
        => DataRows <= filt.Limit

\* The filter filterFromRequest built for the request being served.
GivenFilter == filterFromRequest(req).f

\* temp differs from f in nothing but the interval and the source set, and
\* names exactly one of f's sources.
NarrowedCopyOf(temp, f) ==
    /\ ~temp.nil
    /\ temp.Limit = f.Limit
    /\ temp.Granularity = f.Granularity
    /\ Len(temp.Sources) = 1
    /\ \E i \in 1..Len(f.Sources) : temp.Sources[1] = f.Sources[i]

\* C23: aggregation never changes the filter it was given: through all the
\* sub-queries the handler's filter is the one filterFromRequest built, and
\* every sub-query's filter is a narrowed filter of its own.
C23_FilterUntouched ==
    ~filt.nil
        => /\ filt = GivenFilter
           /\ \A k \in 1..Len(issued) : NarrowedCopyOf(issued[k], filt)

\* A request naming two sources over two days has had its third sub-query
\* issued, and the handler's filter still names both sources and both days.
C23_Witness ==
    /\ DayRun
    /\ Len(issued) = 3
    /\ Len(filt.Sources) = 2
    /\ filt.To = filt.From + 2 * HoursPerDay
    /\ issued[3].Sources # filt.Sources
    /\ issued[3].From # filt.From

\* C24: every filter a network call is made for has from before to, and a
\* request whose from is after its to causes no sub-query in either mode.
C24_CallsHaveFromBeforeTo ==
    /\ \A k \in 1..Len(issued) : issued[k].From < issued[k].To
    /\ (~filt.nil /\ filt.From > filt.To) => issued = <<>>

\* C29: when the aggregation fails, the response carries a failure status
\* (4xx or 5xx), never a success one.
C29_FailureStatus ==
    herr = "call" => status \in 400..599

\* C30: two sub-queries whose filters differ only in the source are
\* different requests on the wire.
C30_SourceOnWire ==
    \A j, k \in 1..Len(issued) :
        (/\ issued[j].Sources # issued[k].Sources
         /\ issued[j].From = issued[k].From
         /\ issued[j].To = issued[k].To
         /\ issued[j].Limit = issued[k].Limit
         /\ issued[j].Granularity = issued[k].Granularity)
            => Query(issued[j]) # Query(issued[k])

\* ---------------------------------------------------------------------
\* Cancellation ahead of a wait, statuses below 400, transport errors.

\* C25: a context that is already cancelled when a 429 with an integer
\* Retry-After arrives makes do leave the select on the cancellation: the
\* timer's case is never the one taken, so no further call is made.
C25_CancelledBeforeWait ==
    [][(pc = "inflight" /\ pc' = "wait" /\ cancelled) => woken' = "ctx"]_vars

\* C27: a response whose status is neither 2xx nor 429 ends do at once on
\* an error, the upstream error of that status and body when the body can
\* be read; it is never a success.
C27_NonSuccessIsError ==
    (/\ Answered
     /\ resp.status \notin 200..299
     /\ resp.status # StatusTooManyRequests)
        => /\ pc = "done"
           /\ err.kind # "nil"
           /\ resp.readable => err = UpstreamErrorOf(resp)

\* The step in which the Doer returned an error instead of a response: do
\* leaves the call with no response counted.
TransportFailure ==
    /\ Exact
    /\ pc = "inflight"
    /\ pc' # "inflight"
    /\ resp' = resp
    /\ n429' = n429

\* C28: an error of the Doer, on the first attempt or a retry, is returned
\* at once: do is done with that error, the target is as it was, and no
\* call follows.
C28_TransportErrorTerminal ==
    /\ [][TransportFailure
            => /\ pc' = "done"
               /\ err' = TransportErr
               /\ v' = v
               /\ calls' = calls]_vars
    /\ [][pc = "done" => (pc' = "done" /\ calls' = calls /\ v' = v)]_vars
    /\ [](err = TransportErr => (pc = "done" /\ v.val = <<>>))

\* The Doer failed on the retry after a 429.
C28_Witness ==
    /\ pc = "done"
    /\ err = TransportErr
    /\ calls = 2
    /\ n429 = 1
    /\ v.present

\* ---------------------------------------------------------------------
\* The attempts of one do behind the transport of main.run.

\* C26: every attempt of one do sends the request of the first attempt,
\* Authorization included, and the token source is not asked again after
\* the first attempt.
C26_SameRequestEveryAttempt ==
    /\ last = first
    /\ ~refetch

\* The request without its Authorization.
Bare(w) == [w EXCEPT !.authorization = "none"]

\* The step in which a retry goes out.
RetrySent == pc = "call" /\ calls >= 1 /\ pc' = "inflight"

\* C26 (amended): every attempt sends the request do was given, which do
\* leaves as it is, with the kept credential of that moment as its
\* Authorization; a retry made while the kept credential is at least 10 s
\* from its expiry asks for no credential and (no other request having
\* replaced it) carries the Authorization of the attempt before, and a
\* retry made when it is not carries a credential fetched for this attempt.
C26_SameRequestFreshCredential ==
    /\ [][rq' = rq]_vars
    /\ [](first # NoWire => (Bare(first) = rq /\ Bare(last) = rq))
    /\ [][RetrySent => last'.authorization = tok'.AccessToken]_vars
    /\ [][(RetrySent /\ Age(tok, now) = "fresh")
            => (last' = last /\ tok' = tok /\ refetch' = refetch)]_vars
    /\ [][(RetrySent /\ Age(tok, now) # "fresh") => refetch']_vars

\* A retry went out after the credential of the first attempt had run out,
\* with another credential.
C26_Witness ==
    /\ pc = "inflight"
    /\ calls = 2
    /\ n429 = 1
    /\ refetch
    /\ first.authorization = "a"
    /\ last.authorization = "b"

\* ---------------------------------------------------------------------
\* The Client's fields under concurrent callers.

\* C22: no caller ever gets to a statement that writes a field of the
\* shared Client.
C22_ClientNeverWritten ==
    \A c \in Callers : rpc[c] \notin {"store", "store2", "setdoer"}

\* ---------------------------------------------------------------------
\* The limit as a slice capacity.

\* C32: whatever integer limit filterFromRequest accepted, zero and
\* negative ones included, the handler does not panic.
C32_NoPanic ==
    ~filt.nil => herr # "panic"

\* ---------------------------------------------------------------------
\* The response bodies of one do.

\* C31: at most one response body is open at any moment, and none while
\* an attempt is under way: the body of a 429 is closed before do calls
\* the Doer again.
C31_OneBodyOpen ==
    /\ unclosed <= 1
    /\ pc = "inflight" => unclosed = 0

====
